---- MODULE Spec2Model ----
(***************************************************************************)
(* zFetcher: the request lifecycle of createZFetcher(config).fetch.        *)
(*                                                                         *)
(* One client is constructed (Init) and one call of fetcher is followed    *)
(* from its invocation to its return or throw.  fetcher is an async        *)
(* function: it runs synchronously up to an `await`, and is resumed when   *)
(* the awaited hook, timer, transport, mock supplier or body decoder       *)
(* settles.  Each action below is one such resumption and runs the code up *)
(* to the next `await` (or to the return/throw of the call).               *)
(*                                                                         *)
(* Spec follows one call.  SpecRequest follows the building of the       *)
(* request (merged mappings, URL, fetch arguments) from every combination  *)
(* of inputs.  SpecConcurrent follows two calls on one client, interleaved *)
(* at their awaits.                                                        *)
(*                                                                         *)
(* JavaScript values are modelled as tuples of strings, so that values of  *)
(* different kinds are comparable: <<"undefined">>, <<"null">>,            *)
(* <<"json", p>>, <<"text", p>>, <<"value", slot>>.                        *)
(***************************************************************************)
EXTENDS Naturals, Sequences, FiniteSets, TLC

VARIABLES
    config,         \* the argument of createZFetcher (closed over by fetcher)
    options,        \* the options argument of the call
    pc,             \* "idle", the awaited function, or "done"
    log,            \* the functions invoked so far, in order, with their argument
    ret,            \* slot -> the value its hook returned (handledValue, onErrorRet, ...)
    response,       \* `response`
    err,            \* `err` of the catch clause
    beforeHandle,   \* `beforeHandle`
    processedBody,  \* `processedBody`
    result,         \* how the call ended
    args,           \* what the request is built from: config, endpoint, options
    locals,         \* mergedHeaders, mergedFetchOptions, mergedQueryParams, queryString, fullUrl
    cur,            \* which of two calls on the client the variables above belong to
    other           \* the suspended other call: its options and the locals of its fetcher

vars == <<config, options, pc, log, ret, response, err, beforeHandle,
          processedBody, result, args, locals, cur, other>>

----------------------------------------------------------------------------
(* Values *)

Undefined == <<"undefined">>
Null      == <<"null">>

\* The five lifecycle points and the two slots of each.
Hooks == {"onPrep", "onSuccess", "onNotOk", "onError", "onSettled"}

DefaultSlot ==
    [onPrep    |-> "defaultOnPrep",
     onSuccess |-> "defaultOnSuccess",
     onNotOk   |-> "defaultOnNotOk",
     onError   |-> "defaultOnError",
     onSettled |-> "defaultOnSettled"]

Slots == Hooks \cup {DefaultSlot[h] : h \in Hooks}

\* What a hook whose return value is used may return.
HookValue(slot) == <<"value", slot>>
HookResults(slot) == {Undefined, Null, HookValue(slot)}

\* What a hook throws: an error of its own.
HookThrown(slot) == [name |-> "Error", message |-> slot]

NoError == [name |-> "none"]

\* What the transport and the mock supplier throw.
FetchFailure == [name |-> "TypeError", message |-> "fetch failed"]
MockFailure  == [name |-> "Error", message |-> "mockFn failed"]
JsonFailure  == [name |-> "SyntaxError", message |-> "Unexpected token"]

\* Faulty variant: the constructor drops the body
ResponseError_NoBody(resp, body) ==
    [name     |-> "ResponseError",
     message  |-> "ResponseError",
     response |-> resp,
     status   |-> resp.status,
     headers  |-> [contentLength |-> resp.contentLength,
                   contentType   |-> resp.contentType],
     body     |-> Undefined]


ResponseError(resp, body) ==
    [name     |-> "ResponseError",
     message  |-> "ResponseError",
     response |-> resp,
     status   |-> resp.status,
     headers  |-> [contentLength |-> resp.contentLength,
                   contentType   |-> resp.contentType],
     body     |-> body]

NetworkError(message, originalError) ==
    [name          |-> "NetworkError",
     message       |-> message,
     originalError |-> originalError,
     cause         |-> originalError]

----------------------------------------------------------------------------
(* Responses *)

NoContent == 204

\* String.prototype.toLowerCase on the content types of the model.
ToLowerCase(s) ==
    CASE s = "Application/JSON" -> "application/json"
      [] s = "TEXT/PLAIN"       -> "text/plain"
      [] OTHER                  -> s

\* String.prototype.includes("json") on the lower-cased content types.
IncludesJson(s) == s \in {"application/json", "application/problem+json"}

\* A header that is absent reads as "null" (Headers.get returns null).
NoResponse ==
    [status |-> 0, contentLength |-> "null", contentType |-> "null",
     payload |-> "none", wellFormed |-> TRUE]

Responses ==
    { [status |-> 200, contentLength |-> "null", contentType |-> "Application/JSON",
       payload |-> "p200", wellFormed |-> TRUE],
      [status |-> 200, contentLength |-> "12", contentType |-> "text/plain",
       payload |-> "p200", wellFormed |-> TRUE],
      [status |-> 200, contentLength |-> "12", contentType |-> "application/json",
       payload |-> "p200", wellFormed |-> FALSE],
      [status |-> 204, contentLength |-> "null", contentType |-> "application/json",
       payload |-> "none", wellFormed |-> FALSE],
      [status |-> 404, contentLength |-> "null", contentType |-> "application/json",
       payload |-> "p404", wellFormed |-> TRUE],
      [status |-> 404, contentLength |-> "0", contentType |-> "null",
       payload |-> "none", wellFormed |-> TRUE],
      [status |-> 200, contentLength |-> "0", contentType |-> "application/json",
       payload |-> "none", wellFormed |-> FALSE],
      [status |-> 502, contentLength |-> "null", contentType |-> "application/json",
       payload |-> "p502", wellFormed |-> FALSE] }

\* Response.ok: the status is in the range 200-299.
Ok(resp) == resp.status \in 200..299

----------------------------------------------------------------------------
(* Inputs *)

MaxDelay == 1

Flags == {"undefined", "true", "false"}

\* The sets of lifecycle points a configuration may name: none, one, or all.
HookSets == {{}} \cup {{h} : h \in Hooks} \cup {Hooks}

Configs == [hooks : HookSets, throwNotOk : Flags]

Options ==
    [hooks          : HookSets,
     disableDefault : HookSets,
     throwNotOk     : Flags,
     mockFn         : BOOLEAN,
     delay          : 0..MaxDelay]

NoOptions ==
    [hooks |-> {}, disableDefault |-> {}, throwNotOk |-> "undefined",
     mockFn |-> FALSE, delay |-> 0]

\* The options of the calls that are followed: every combination of hooks
\* and disableDefault flags, with the transport or a mock supplier; and
\* every combination of throwNotOk, mock supplier and delay, with no or all
\* hooks and no or all disableDefault flags.
CallOptions ==
    [hooks          : HookSets,
     disableDefault : HookSets,
     throwNotOk     : {"undefined"},
     mockFn         : BOOLEAN,
     delay          : {0}]
    \cup
    [hooks          : {{}, Hooks},
     disableDefault : {{}, Hooks},
     throwNotOk     : Flags,
     mockFn         : BOOLEAN,
     delay          : 0..MaxDelay]

----------------------------------------------------------------------------
(* createZFetcher: the defaults read from config *)

\* throwNotOk: defaultThrowNotOk = true
defaultThrowNotOk ==
    IF config.throwNotOk = "undefined" THEN TRUE ELSE config.throwNotOk = "true"

\* Faulty variant: const shouldThrowNotOk = throwNotOk || defaultThrowNotOk
shouldThrowNotOk_Or ==
    options.throwNotOk = "true" \/ defaultThrowNotOk

\* const shouldThrowNotOk = throwNotOk !== undefined ? throwNotOk : defaultThrowNotOk
shouldThrowNotOk ==
    IF options.throwNotOk # "undefined"
    THEN options.throwNotOk = "true"
    ELSE defaultThrowNotOk

\* Faulty variant: the disableDefault flag is not consulted
DefaultEnabled_FlagIgnored(h) == h \in config.hooks

\* `defaultOnX && !disableDefaultOnX`
DefaultEnabled(h) == h \in config.hooks /\ h \notin options.disableDefault

\* `onX` of the call options is set
CallLevel(h) == h \in options.hooks

----------------------------------------------------------------------------
(* fetcher: where control stops next.  Each operator is one statement of   *)
(* fetcher and yields the function the code awaits next from there, or     *)
(* "end" when the code reaches its final return/throw without awaiting.    *)

\* if (onSettled) await onSettled();                      (after a response)
AtOnSettled ==
    IF CallLevel("onSettled") THEN "onSettled" ELSE "end"

\* if (defaultOnSettled && !disableDefaultOnSettled) await defaultOnSettled();
AtDefaultOnSettled ==
    IF DefaultEnabled("onSettled") THEN "defaultOnSettled" ELSE AtOnSettled

\* if (onNotOk) { const handledValue = await onNotOk(response, beforeHandle) ...
AtOnNotOk ==
    IF CallLevel("onNotOk") THEN "onNotOk" ELSE AtDefaultOnSettled

\* if (defaultOnNotOk && !disableDefaultOnNotOk) { ... await defaultOnNotOk(...)
AtDefaultOnNotOk ==
    IF DefaultEnabled("onNotOk") THEN "defaultOnNotOk" ELSE AtOnNotOk

\* Faulty variant: the success branch falls through into the not-ok branch
AtOnSuccess_FallThrough ==
    IF CallLevel("onSuccess") THEN "onSuccess" ELSE AtDefaultOnNotOk

\* if (onSuccess) { const handledValue = await onSuccess(response, beforeHandle) ...
AtOnSuccess ==
    IF CallLevel("onSuccess") THEN "onSuccess" ELSE AtDefaultOnSettled

\* if (defaultOnSuccess && !disableDefaultOnSuccess) { ... await defaultOnSuccess(...)
AtDefaultOnSuccess ==
    IF DefaultEnabled("onSuccess") THEN "defaultOnSuccess" ELSE AtOnSuccess

\* if (response.ok) { ... } else { ... }
AtOutcome(resp) ==
    IF Ok(resp) THEN AtDefaultOnSuccess ELSE AtDefaultOnNotOk

\* Faulty variant: only the status is tested
EmptyBody_StatusOnly(resp) ==
    resp.status = NoContent

\* response.status === 204 || contentLength === "0"
EmptyBody(resp) ==
    resp.status = NoContent \/ resp.contentLength = "0"

\* contentType && contentType.toLowerCase().includes("json")
JsonBody(resp) ==
    resp.contentType # "null" /\ IncludesJson(ToLowerCase(resp.contentType))

\* the decoding of the body
AtDecode(resp) ==
    IF EmptyBody(resp) THEN AtOutcome(resp)
    ELSE IF JsonBody(resp) THEN "json" ELSE "text"

\* if (onSettled) await onSettled();                      (in the catch clause)
AtCatchOnSettled ==
    IF CallLevel("onSettled") THEN "onSettled" ELSE "end"

\* Faulty variant: the catch clause forgets the default settled hook
AtCatchDefaultOnSettled_Forgotten ==
    IF CallLevel("onSettled") THEN "onSettled" ELSE "end"

\* if (defaultOnSettled && !disableDefaultOnSettled) await defaultOnSettled();
AtCatchDefaultOnSettled ==
    IF DefaultEnabled("onSettled") THEN "defaultOnSettled" ELSE AtCatchOnSettled

\* if (defaultOnError && !disableDefaultOnError) defaultOnErrorRet = await defaultOnError(err)
AtDefaultOnError ==
    IF DefaultEnabled("onError") THEN "defaultOnError" ELSE AtCatchDefaultOnSettled

\* Faulty variant: the default error hook is called first, as on the other branches
AtOnError_DefaultFirst ==
    IF DefaultEnabled("onError") THEN "defaultOnError"
    ELSE IF CallLevel("onError") THEN "onError" ELSE AtCatchDefaultOnSettled

\* Faulty variant: a failure of the dispatch is handled as a non-ok response
AtOnError_AsNotOk ==
    AtDefaultOnNotOk

\* Faulty variant: the first failure of the dispatch is retried once
AtOnError_Retry ==
    IF err = NoError THEN (IF options.mockFn THEN "mockFn" ELSE "fetch")
    ELSE IF CallLevel("onError") THEN "onError" ELSE AtDefaultOnError

\* if (onError) onErrorRet = await onError(err)
AtOnError ==
    IF CallLevel("onError") THEN "onError" ELSE AtDefaultOnError

\* Faulty variant: the mock supplier is not consulted
AtDispatch_MockIgnored ==
    "fetch"

\* if (mockFn) response = await mockFn() else response = await fetch(...)
AtDispatch ==
    IF options.mockFn THEN "mockFn" ELSE "fetch"

\* if (delay) await new Promise((res) => setTimeout(res, delay));
AtDelay ==
    IF options.delay # 0 THEN "delay" ELSE AtDispatch

\* Faulty variant: the delay is awaited before the call-level prep hook
AtOnPrep_AfterDelay ==
    IF options.delay # 0 THEN "delay"
    ELSE IF CallLevel("onPrep") THEN "onPrep" ELSE AtDispatch

\* if (onPrep) await onPrep();
AtOnPrep ==
    IF CallLevel("onPrep") THEN "onPrep" ELSE AtDelay

\* Faulty variant: the call-level prep hook replaces the default one
AtDefaultOnPrep_CallLevelOnly ==
    IF CallLevel("onPrep") THEN "onPrep"
    ELSE IF DefaultEnabled("onPrep") THEN "defaultOnPrep" ELSE AtDelay

\* if (defaultOnPrep && !disableDefaultOnPrep) await defaultOnPrep();
AtDefaultOnPrep ==
    IF DefaultEnabled("onPrep") THEN "defaultOnPrep" ELSE AtOnPrep

----------------------------------------------------------------------------
(* fetcher: how the call ends *)

Pending      == [kind |-> "pending", value |-> Undefined, error |-> NoError]
Return(v)    == [kind |-> "return",  value |-> v,         error |-> NoError]
Throw(e)     == [kind |-> "throw",   value |-> Undefined, error |-> e]

\* Faulty variant: if (shouldThrowNotOk) throw ...: response.ok is not consulted
FinalDisposition_OkIgnored(resp, body) ==
    IF shouldThrowNotOk
    THEN Throw(ResponseError(resp, body))
    ELSE Return(body)

\* Faulty variant: if (!response.ok) throw ...: the flag is not consulted
FinalDisposition_FlagIgnored(resp, body) ==
    IF ~Ok(resp)
    THEN Throw(ResponseError(resp, body))
    ELSE Return(body)

\* if (!response.ok && shouldThrowNotOk) throw new ResponseError(response, processedBody)
\* return processedBody;
FinalDisposition(resp, body) ==
    IF ~Ok(resp) /\ shouldThrowNotOk
    THEN Throw(ResponseError(resp, body))
    ELSE Return(body)

\* Faulty variant: throw err: the failure is rethrown unwrapped
CatchDisposition_Rethrow(onErrorRet, defaultOnErrorRet, e) ==
    IF onErrorRet # Undefined THEN Return(onErrorRet)
    ELSE IF defaultOnErrorRet # Undefined THEN Return(defaultOnErrorRet)
    ELSE Throw(e)

\* Faulty variant: the default error hook's value is not returned
CatchDisposition_CallLevelOnly(onErrorRet, defaultOnErrorRet, e) ==
    IF onErrorRet # Undefined THEN Return(onErrorRet)
    ELSE Throw(NetworkError("Network request failed", e))

\* Faulty variant: the default error hook's value is returned first
CatchDisposition_DefaultFirst(onErrorRet, defaultOnErrorRet, e) ==
    IF defaultOnErrorRet # Undefined THEN Return(defaultOnErrorRet)
    ELSE IF onErrorRet # Undefined THEN Return(onErrorRet)
    ELSE Throw(NetworkError("Network request failed", e))

\* if (onErrorRet !== undefined) return onErrorRet;
\* if (defaultOnErrorRet !== undefined) return defaultOnErrorRet;
\* throw new NetworkError("Network request failed", err);
CatchDisposition(onErrorRet, defaultOnErrorRet, e) ==
    IF onErrorRet # Undefined THEN Return(onErrorRet)
    ELSE IF defaultOnErrorRet # Undefined THEN Return(defaultOnErrorRet)
    ELSE Throw(NetworkError("Network request failed", e))

\* Faulty variant: if (handledValue) processedBody = handledValue
Replace_Truthy(body, handledValue) ==
    IF handledValue \notin {Undefined, Null} THEN handledValue ELSE body

\* if (handledValue !== undefined) processedBody = handledValue
Replace(body, handledValue) ==
    IF handledValue # Undefined THEN handledValue ELSE body

----------------------------------------------------------------------------
(* The log of invocations *)

OutcomeSlots == {"defaultOnSuccess", "onSuccess", "defaultOnNotOk", "onNotOk"}
ErrorSlots   == {"defaultOnError", "onError"}

\* Faulty variant: the error hooks are passed the NetworkError the call would throw
Invoked_Wrapped(fn, bh, e) ==
    [ev    |-> "invoke",
     fn    |-> fn,
     body  |-> IF fn \in OutcomeSlots THEN bh ELSE Undefined,
     error |-> IF fn \in ErrorSlots
               THEN NetworkError("Network request failed", e)
               ELSE NoError]

\* fn is invoked; the outcome hooks are passed beforeHandle, the error hooks err.
Invoked(fn, bh, e) ==
    [ev    |-> "invoke",
     fn    |-> fn,
     body  |-> IF fn \in OutcomeSlots THEN bh ELSE Undefined,
     error |-> IF fn \in ErrorSlots THEN e ELSE NoError]

\* the promise of fn has settled (how: "resolved" or "rejected") and fetcher
\* is resumed
Settled(fn, how) ==
    [ev |-> how, fn |-> fn, body |-> Undefined, error |-> NoError]

\* fetcher is resumed by the settling of `fn` and runs to `stop`.
ResumeAs(how, fn, stop, bh, e, disposition) ==
    /\ pc' = IF stop = "end" THEN "done" ELSE stop
    /\ log' = IF stop = "end"
              THEN Append(log, Settled(fn, how))
              ELSE Append(Append(log, Settled(fn, how)), Invoked(stop, bh, e))
    /\ result' = IF stop = "end" THEN disposition ELSE result

Resume(fn, stop, bh, e, disposition) ==
    ResumeAs("resolved", fn, stop, bh, e, disposition)

\* Faulty variant: the prep hooks are inside a try/finally that runs the settled hooks
Propagate_Finally(fn, e) ==
    ResumeAs("rejected", fn,
             IF fn \in {"defaultOnPrep", "onPrep"} THEN AtDefaultOnSettled ELSE "end",
             Undefined, NoError, Throw(e))

\* Faulty variant: the outcome hooks are inside a try/finally that runs the settled hooks
Propagate_OutcomeFinally(fn, e) ==
    ResumeAs("rejected", fn,
             IF fn \in OutcomeSlots THEN AtDefaultOnSettled ELSE "end",
             Undefined, NoError, Throw(e))

\* Faulty variant: a throwing not-ok hook is overruled by throwNotOk
Propagate_NotOkAsResponseError(fn, e) ==
    /\ pc' = "done"
    /\ log' = Append(log, Settled(fn, "rejected"))
    /\ result' = IF fn \in {"defaultOnNotOk", "onNotOk"} /\ shouldThrowNotOk
                 THEN Throw(ResponseError(response, processedBody))
                 ELSE Throw(e)

\* Faulty variant: a throwing error hook counts as one that returned undefined
Propagate_ErrorHookSwallowed(fn, e) ==
    /\ pc' = "done"
    /\ log' = Append(log, Settled(fn, "rejected"))
    /\ result' = IF fn \in ErrorSlots
                 THEN CatchDisposition(ret["onError"], ret["defaultOnError"], err)
                 ELSE Throw(e)

\* Faulty variant: a throwing settled hook is ignored
Propagate_SettledSwallowed(fn, e) ==
    /\ pc' = "done"
    /\ log' = Append(log, Settled(fn, "rejected"))
    /\ result' = IF fn \notin {"defaultOnSettled", "onSettled"} THEN Throw(e)
                 ELSE IF err # NoError
                 THEN CatchDisposition(ret["onError"], ret["defaultOnError"], err)
                 ELSE FinalDisposition(response, processedBody)

\* the awaited promise rejects outside the try block: the call rejects with it.
Propagate(fn, e) ==
    /\ pc' = "done"
    /\ log' = Append(log, Settled(fn, "rejected"))
    /\ result' = Throw(e)

----------------------------------------------------------------------------
(* Building the request (createZFetcher's destructuring and the synchronous *)
(* head of fetcher).                                                        *)
(*                                                                          *)
(* A string is a sequence of symbols.  A symbol is one character wherever   *)
(* the code looks inside the string ("/", "?", "=", "&") and a whole word   *)
(* ("https://api.example.com", "users/1") wherever it does not.  An object  *)
(* used as a mapping is the sequence of its <<key, value>> entries in       *)
(* insertion order; a mapping that was not passed is NoMapping.             *)

Slash == <<"/">>

Scalar(s) == <<"string", s>>
Array(vs) == <<"array", vs>>

NoMapping   == [passed |-> FALSE, entries |-> <<>>]
Mapping(es) == [passed |-> TRUE,  entries |-> es]

\* JavaScript truthiness of an optional string and of an optional boolean
Truthy(s)   == s # Undefined /\ s # <<>>
IsTrue(flag) == flag = "true"

\* a || b
Or(a, b) == IF Truthy(a) THEN a ELSE b

\* Faulty variant: an existing key keeps its value
Put_KeepExisting(m, k, v) ==
    IF \E i \in DOMAIN m : m[i][1] = k THEN m ELSE Append(m, <<k, v>>)

\* target[k] = v: an existing key keeps its position
Put(m, k, v) ==
    IF \E i \in DOMAIN m : m[i][1] = k
    THEN [i \in DOMAIN m |-> IF m[i][1] = k THEN <<k, v>> ELSE m[i]]
    ELSE Append(m, <<k, v>>)

\* { ...target, ...source } where target is already a fresh object; spreading
\* undefined adds nothing
RECURSIVE Assign(_, _)
Assign(target, es) ==
    IF es = <<>> THEN target
    ELSE Assign(Put(target, Head(es)[1], Head(es)[2]), Tail(es))

Spread(target, source) == Assign(target, source.entries)

\* Faulty variant: the defaults are dropped only when the call passes a mapping
Merged_DisabledWhenPassed(disableDefault, default, x) ==
    Spread(Spread(<<>>, IF IsTrue(disableDefault) /\ x.passed THEN Mapping(<<>>) ELSE default), x)

\* { ...(disableDefaultX ? {} : defaultX), ...x }
Merged(disableDefault, default, x) ==
    Spread(Spread(<<>>, IF IsTrue(disableDefault) THEN Mapping(<<>>) ELSE default), x)

\* fetchOptions: defaultFetchOptions = { credentials: 'include' }
BuiltInFetchOptions == Mapping(<<  <<"credentials", Scalar(<<"include">>)>>  >>)

\* String(v) for a string, JSON.stringify(null) for null
Stringify(v) == IF v = Null THEN <<"null">> ELSE v[2]

\* the searchParams.append calls of buildQueryString, in order
RECURSIVE SearchParams(_)
SearchParams(es) ==
    IF es = <<>> THEN <<>>
    ELSE LET key   == Head(es)[1]
             value == Head(es)[2]
             here  == IF value = Undefined THEN <<>>
                      ELSE IF value[1] = "array"
                      THEN [i \in 1..Len(value[2]) |-> <<key, value[2][i]>>]
                      ELSE << <<key, Stringify(value)>> >>
         IN  here \o SearchParams(Tail(es))

\* searchParams.toString()
RECURSIVE toString(_)
toString(ps) ==
    IF ps = <<>> THEN <<>>
    ELSE LET p == <<Head(ps)[1], "=">> \o Head(ps)[2]
         IN  IF Len(ps) = 1 THEN p ELSE p \o <<"&">> \o toString(Tail(ps))

buildQueryString(query) ==
    LET queryString == toString(SearchParams(query))
    IN  IF queryString # <<>> THEN <<"?">> \o queryString ELSE <<>>

EndsWith(s, c)   == Len(s) > 0 /\ s[Len(s)] = c
StartsWith(s, c) == Len(s) > 0 /\ s[1] = c

buildUrl(base, endpoint, query) ==
    LET normalizedBase     == IF EndsWith(base, "/") THEN SubSeq(base, 1, Len(base) - 1) ELSE base
        normalizedEndpoint == IF StartsWith(endpoint, "/") THEN endpoint ELSE Slash \o endpoint
    IN  normalizedBase \o normalizedEndpoint \o query

\* JSON.stringify of an object whose JSON text, without the braces, is o
JsonStringify(o) == Scalar(<<"{">> \o o \o <<"}">>)

\* a body that is a string, and a body that is a plain object
Text(s)      == Scalar(s)
Object(o)    == <<"object", o>>

\* if (!body): undefined, null and the empty string are falsy
BodyTruthy(body) == body \notin {Undefined, Null, Text(<<>>)}

\* prepareRequestBody of util.ts (the special types FormData, Blob,
\* URLSearchParams and ReadableStream pass through like a string does)
prepareRequestBody(body) ==
    IF ~BodyTruthy(body) THEN Null
    ELSE IF body[1] = "string" THEN body
    ELSE JsonStringify(body[2])

(* Inputs of the request *)

Get  == <<"GET">>
Post == <<"POST">>

\* fetch, and the five methods of the client with the method each one fixes
EntryMethod ==
    [get |-> Get, post |-> Post, put |-> <<"PUT">>, patch |-> <<"PATCH">>,
     delete |-> <<"DELETE">>]
Entries == {"fetch"} \cup DOMAIN EntryMethod

Methods == {Undefined, Get, Post}
Bodies  == {Undefined, Text(<<>>), Text(<<"text">>), Object(<<"a:1">>)}

Api   == <<"https://api.example.com">>
Other == <<"https://other.example.com">>
Users == <<"users/1">>

Bases     == {<<>>, Api, Api \o Slash, Api \o Slash \o Slash}
Urls      == {Undefined, <<>>, Other, Other \o Slash}
Endpoints == {<<>>, Users, Slash \o Users, Slash \o Slash \o Users}

One == Scalar(<<"1">>)
Two == Scalar(<<"2">>)

DefaultMappings ==
    { NoMapping,
      Mapping(<<>>),
      Mapping(<< <<"p", One>> >>),
      Mapping(<< <<"p", One>>, <<"q", Two>> >>) }

CallMappings ==
    { NoMapping,
      Mapping(<<>>),
      Mapping(<< <<"p", Two>> >>),
      Mapping(<< <<"q", Undefined>> >>),
      Mapping(<< <<"r", Array(<< <<"1">>, <<"2">> >>)>>, <<"p", Null>> >>) }

\* client-level fetch options may, by their type, hold a method or a body
DefaultFetchOptions ==
    { NoMapping,
      Mapping(<< <<"method", Scalar(Post)>> >>),
      Mapping(<< <<"body", Text(<<"text">>)>> >>) }

RequestConfigs ==
    [url : Bases, normalizeUrl : Flags,
     headers : DefaultMappings, queryParams : DefaultMappings,
     fetchOptions : DefaultMappings \cup DefaultFetchOptions]

RequestOptions ==
    [method : Methods, body : Bodies, url : Urls, normalizeUrl : Flags,
     headers : CallMappings, queryParams : CallMappings, fetchOptions : CallMappings,
     disableDefaultHeaders : Flags, disableDefaultQueryParams : Flags,
     disableDefaultFetchOptions : Flags]

\* a client and a call that pass none of these
NoArgs ==
    [config   |-> [url |-> <<>>, normalizeUrl |-> "undefined", headers |-> NoMapping,
                   queryParams |-> NoMapping, fetchOptions |-> NoMapping],
     endpoint |-> <<>>,
     entry    |-> "fetch",
     options  |-> [method |-> Undefined, body |-> Undefined,
                   url |-> Undefined, normalizeUrl |-> "undefined", headers |-> NoMapping,
                   queryParams |-> NoMapping, fetchOptions |-> NoMapping,
                   disableDefaultHeaders |-> "undefined",
                   disableDefaultQueryParams |-> "undefined",
                   disableDefaultFetchOptions |-> "undefined"]]

\* the calls that differ from NoArgs in the URL, the normalizeUrl flags and
\* the query parameters only
UrlArgs ==
    { [config   |-> [NoArgs.config EXCEPT !.url = b, !.normalizeUrl = dn, !.queryParams = q[1]],
       endpoint |-> e,
       entry    |-> "fetch",
       options  |-> [NoArgs.options EXCEPT !.url = u, !.normalizeUrl = n, !.queryParams = q[2]]] :
      b \in Bases, u \in Urls, e \in Endpoints, dn \in Flags, n \in Flags,
      q \in { <<NoMapping, NoMapping>>,
              <<Mapping(<< <<"p", One>> >>),
                Mapping(<< <<"q", Undefined>>, <<"r", Array(<< <<"1">>, <<"2">> >>)>> >>)>> } }

\* the calls that differ from NoArgs in one of the three mappings only
MappingArgs ==
    { [NoArgs EXCEPT !.config.headers = d, !.options.headers = x,
                     !.options.disableDefaultHeaders = f] :
      d \in DefaultMappings, x \in CallMappings, f \in Flags }
    \cup
    { [NoArgs EXCEPT !.config.queryParams = d, !.options.queryParams = x,
                     !.options.disableDefaultQueryParams = f] :
      d \in DefaultMappings, x \in CallMappings, f \in Flags }
    \cup
    { [NoArgs EXCEPT !.config.fetchOptions = d, !.options.fetchOptions = x,
                     !.options.disableDefaultFetchOptions = f] :
      d \in DefaultMappings, x \in CallMappings, f \in Flags }

\* the calls that differ from NoArgs in the entry point, the method, the
\* body, the headers and the fetch options only
InitArgs ==
    { [NoArgs EXCEPT !.entry = en, !.options.method = m, !.options.body = b,
                     !.options.headers = h, !.config.fetchOptions = d,
                     !.options.fetchOptions = x] :
      en \in Entries, m \in Methods, b \in Bodies,
      h \in {NoMapping, Mapping(<< <<"p", Two>> >>)},
      d \in DefaultFetchOptions,
      x \in {NoMapping, Mapping(<< <<"cache", Scalar(<<"no-store">>)>> >>)} }

RequestArgs == UrlArgs \cup MappingArgs \cup InitArgs

(* createZFetcher's destructuring of config *)

defaultUrl          == args.config.url
defaultHeaders      == args.config.headers
defaultQueryParams  == args.config.queryParams
defaultFetchOptions ==
    IF args.config.fetchOptions.passed THEN args.config.fetchOptions ELSE BuiltInFetchOptions
defaultNormalizeUrl == args.config.normalizeUrl

NoLocals ==
    [step |-> "start", mergedHeaders |-> <<>>, mergedFetchOptions |-> <<>>,
     mergedQueryParams |-> <<>>, queryString |-> <<>>, normalize |-> FALSE,
     fullUrl |-> <<>>, init |-> <<>>]

\* get(endpoint, options) is fetcher(endpoint, { ...options, method: 'GET' }),
\* and so for post, put, patch, delete; fetcher's method = "GET" default
method ==
    IF args.entry # "fetch" THEN EntryMethod[args.entry]
    ELSE IF args.options.method = Undefined THEN Get
    ELSE args.options.method

\* the second argument of fetch:
\* { method, headers: mergedHeaders,
\*   ...(method !== "GET" && body && { body: prepareRequestBody(body) }),
\*   ...mergedFetchOptions }
FetchInit(mergedHeaders, mergedFetchOptions) ==
    LET head == << <<"method", Scalar(method)>>, <<"headers", Object(mergedHeaders)>> >>
        body == IF method # Get /\ BodyTruthy(args.options.body)
                THEN << <<"body", prepareRequestBody(args.options.body)>> >>
                ELSE <<>>
    IN  Assign(Assign(head, body), mergedFetchOptions)

\* normalizeUrl || defaultNormalizeUrl
NormalizeCondition ==
    IsTrue(args.options.normalizeUrl) \/ IsTrue(defaultNormalizeUrl)

\* const mergedHeaders = ..., mergedFetchOptions = ..., mergedQueryParams = ...
MergeDefaults ==
    /\ locals.step = "start"
    /\ locals' = [locals EXCEPT
          !.step = "merged",
          !.mergedHeaders =
              Merged(args.options.disableDefaultHeaders, defaultHeaders, args.options.headers),
          !.mergedFetchOptions =
              Merged(args.options.disableDefaultFetchOptions, defaultFetchOptions,
                     args.options.fetchOptions),
          !.mergedQueryParams =
              Merged(args.options.disableDefaultQueryParams, defaultQueryParams,
                     args.options.queryParams)]
    /\ UNCHANGED <<cur, other, args, config, options, pc, log, ret, response, err, beforeHandle,
                   processedBody, result>>

\* queryString, fullUrl, and the normalization of fullUrl; fullUrl is then
\* the first argument of fetch
ResolveUrl ==
    /\ locals.step = "merged"
    /\ LET queryString == buildQueryString(locals.mergedQueryParams)
           literal     == Or(args.options.url, defaultUrl \o args.endpoint \o queryString)
       IN  locals' = [locals EXCEPT
              !.step = "resolved",
              !.queryString = queryString,
              !.normalize = NormalizeCondition,
              !.fullUrl = IF NormalizeCondition
                          THEN buildUrl(Or(args.options.url, defaultUrl), args.endpoint, queryString)
                          ELSE literal]
    /\ UNCHANGED <<cur, other, args, config, options, pc, log, ret, response, err, beforeHandle,
                   processedBody, result>>

\* fetch(fullUrl, { ... }) is called (a call without a mock supplier)
CallFetch ==
    /\ locals.step = "resolved"
    /\ locals' = [locals EXCEPT
          !.step = "fetched",
          !.init = FetchInit(locals.mergedHeaders, locals.mergedFetchOptions)]
    /\ UNCHANGED <<cur, other, args, config, options, pc, log, ret, response, err, beforeHandle,
                   processedBody, result>>

----------------------------------------------------------------------------
(* Two calls on one client.  Every variable of fetcher is a parameter, a    *)
(* const or a let of the invocation, so each call has its own; the client   *)
(* defaults are consts of createZFetcher's closure.  The variables of the   *)
(* model are those of the running call; `other` holds those of the call     *)
(* that is suspended at its await.                                          *)

Peer == [first |-> "second", second |-> "first"]

\* the options and locals of the running call
Frame ==
    [options |-> options, pc |-> pc, log |-> log, ret |-> ret, response |-> response,
     err |-> err, beforeHandle |-> beforeHandle, processedBody |-> processedBody,
     result |-> result]

\* a call not yet made
IdleFrame ==
    [options |-> NoOptions, pc |-> "idle", log |-> <<>>,
     ret |-> [s \in OutcomeSlots \cup ErrorSlots |-> Undefined],
     response |-> NoResponse, err |-> NoError, beforeHandle |-> Undefined,
     processedBody |-> Undefined, result |-> Pending]

\* Faulty variant: processedBody is declared in createZFetcher, one for all calls
Resumed_SharedBody(frame) ==
    [frame EXCEPT !.processedBody = processedBody]

\* what a call finds in its variables when it is resumed: what it left there
Resumed(frame) == frame

----------------------------------------------------------------------------
(* The client after createZFetcher(config), no call made yet *)

Init ==
    /\ config \in Configs
    /\ options = NoOptions
    /\ pc = "idle"
    /\ log = <<>>
    /\ ret = [s \in OutcomeSlots \cup ErrorSlots |-> Undefined]
    /\ response = NoResponse
    /\ err = NoError
    /\ beforeHandle = Undefined
    /\ processedBody = Undefined
    /\ result = Pending
    /\ args = NoArgs
    /\ locals = NoLocals
    /\ cur = "first"
    /\ other = IdleFrame

----------------------------------------------------------------------------
(* Prep and dispatch *)

\* fetcher(endpoint, opts) runs to its first await.
fetcher(opts) ==
    /\ options' = opts
    /\ UNCHANGED <<cur, other, args, locals, config, ret, response, err, beforeHandle, processedBody, result>>
    /\ pc' = AtDefaultOnPrep'
    /\ log' = <<Invoked(pc', Undefined, NoError)>>

\* the client's fetch is called with some options
Call ==
    /\ pc = "idle"
    /\ \E opts \in CallOptions : fetcher(opts)

\* await defaultOnPrep() resolves
DefaultOnPrepReturns ==
    /\ pc = "defaultOnPrep"
    /\ Resume("defaultOnPrep", AtOnPrep, Undefined, NoError, result)
    /\ UNCHANGED <<cur, other, args, locals, config, options, ret, response, err, beforeHandle, processedBody>>

\* await onPrep() resolves
OnPrepReturns ==
    /\ pc = "onPrep"
    /\ Resume("onPrep", AtDelay, Undefined, NoError, result)
    /\ UNCHANGED <<cur, other, args, locals, config, options, ret, response, err, beforeHandle, processedBody>>

\* the timer of the delay fires
DelayElapses ==
    /\ pc = "delay"
    /\ Resume("delay", AtDispatch, Undefined, NoError, result)
    /\ UNCHANGED <<cur, other, args, locals, config, options, ret, response, err, beforeHandle, processedBody>>

\* response = await ...: the promise resolves with resp; the body is decoded.
DispatchResolves(fn, resp) ==
    /\ pc = fn
    /\ response' = resp
    /\ IF EmptyBody(resp)
       THEN /\ processedBody' = Null
            /\ beforeHandle' = Null
            /\ Resume(fn, AtDecode(resp), Null, NoError, FinalDisposition(resp, Null))
       ELSE /\ UNCHANGED <<processedBody, beforeHandle>>
            /\ Resume(fn, AtDecode(resp), Undefined, NoError, result)
    /\ UNCHANGED <<cur, other, args, locals, config, options, ret, err>>

\* catch (err): the promise rejects with e; the catch clause runs to its first await.
DispatchRejects(fn, e) ==
    /\ pc = fn
    /\ err' = e
    /\ ResumeAs("rejected", fn, AtOnError, Undefined, e,
              CatchDisposition(ret["onError"], ret["defaultOnError"], e))
    /\ UNCHANGED <<cur, other, args, locals, config, options, ret, response, beforeHandle, processedBody>>

FetchResolves ==
    /\ pc = "fetch"
    /\ \E resp \in Responses : DispatchResolves("fetch", resp)

FetchRejects == DispatchRejects("fetch", FetchFailure)

MockFnResolves ==
    /\ pc = "mockFn"
    /\ \E resp \in Responses : DispatchResolves("mockFn", resp)

MockFnRejects == DispatchRejects("mockFn", MockFailure)

----------------------------------------------------------------------------
(* Decoding *)

\* processedBody = await response.json() / await response.text()
Decoded(fn, body) ==
    /\ pc = fn
    /\ processedBody' = body
    /\ beforeHandle' = body
    /\ Resume(fn, AtOutcome(response), body, NoError, FinalDisposition(response, body))
    /\ UNCHANGED <<cur, other, args, locals, config, options, ret, response, err>>

JsonResolves ==
    /\ response.wellFormed
    /\ Decoded("json", <<"json", response.payload>>)

\* Faulty variant: the decoding is inside the try block
JsonRejects_Caught ==
    /\ ~response.wellFormed
    /\ DispatchRejects("json", JsonFailure)

\* response.json() rejects: outside the try block, the call rejects with it.
JsonRejects ==
    /\ pc = "json"
    /\ ~response.wellFormed
    /\ Propagate("json", JsonFailure)
    /\ UNCHANGED <<cur, other, args, locals, config, options, ret, response, err, beforeHandle, processedBody>>

TextResolves == Decoded("text", <<"text", response.payload>>)

----------------------------------------------------------------------------
(* Outcome hooks *)

\* Faulty variant: the next hook is passed processedBody
OutcomeHookReturns_CurrentBody(slot, v, stop) ==
    /\ pc = slot
    /\ ret' = [ret EXCEPT ![slot] = v]
    /\ processedBody' = Replace(processedBody, v)
    /\ Resume(slot, stop, processedBody', NoError,
              FinalDisposition(response, processedBody'))
    /\ UNCHANGED <<cur, other, args, locals, config, options, response, err, beforeHandle>>

\* const handledValue = await hook(response, beforeHandle) resolves with v
OutcomeHookReturns(slot, v, stop) ==
    /\ pc = slot
    /\ ret' = [ret EXCEPT ![slot] = v]
    /\ processedBody' = Replace(processedBody, v)
    /\ Resume(slot, stop, beforeHandle, NoError,
              FinalDisposition(response, processedBody'))
    /\ UNCHANGED <<cur, other, args, locals, config, options, response, err, beforeHandle>>

DefaultOnSuccessReturns ==
    /\ pc = "defaultOnSuccess"
    /\ \E v \in HookResults("defaultOnSuccess") :
          OutcomeHookReturns("defaultOnSuccess", v, AtOnSuccess)

OnSuccessReturns ==
    /\ pc = "onSuccess"
    /\ \E v \in HookResults("onSuccess") :
          OutcomeHookReturns("onSuccess", v, AtDefaultOnSettled)

DefaultOnNotOkReturns ==
    /\ pc = "defaultOnNotOk"
    /\ \E v \in HookResults("defaultOnNotOk") :
          OutcomeHookReturns("defaultOnNotOk", v, AtOnNotOk)

OnNotOkReturns ==
    /\ pc = "onNotOk"
    /\ \E v \in HookResults("onNotOk") :
          OutcomeHookReturns("onNotOk", v, AtDefaultOnSettled)

----------------------------------------------------------------------------
(* Error hooks (in the catch clause) *)

ErrorHookReturns(slot, v, stop) ==
    /\ pc = slot
    /\ ret' = [ret EXCEPT ![slot] = v]
    /\ Resume(slot, stop, Undefined, err,
              CatchDisposition(ret'["onError"], ret'["defaultOnError"], err))
    /\ UNCHANGED <<cur, other, args, locals, config, options, response, err, beforeHandle, processedBody>>

\* Faulty variant: a value returned by the call-level error hook skips the default one
OnErrorReturns_ShortCircuit ==
    /\ pc = "onError"
    /\ \E v \in HookResults("onError") :
          ErrorHookReturns("onError", v,
                           IF v # Undefined THEN AtCatchDefaultOnSettled ELSE AtDefaultOnError)

OnErrorReturns ==
    /\ pc = "onError"
    /\ \E v \in HookResults("onError") :
          ErrorHookReturns("onError", v, AtDefaultOnError)

DefaultOnErrorReturns ==
    /\ pc = "defaultOnError"
    /\ \E v \in HookResults("defaultOnError") :
          ErrorHookReturns("defaultOnError", v, AtCatchDefaultOnSettled)

----------------------------------------------------------------------------
(* Settled hooks *)

InCatch == err # NoError

\* what the code after the settled hooks does: the end of the catch clause or
\* the end of the function
Disposition ==
    IF InCatch
    THEN CatchDisposition(ret["onError"], ret["defaultOnError"], err)
    ELSE FinalDisposition(response, processedBody)

DefaultOnSettledReturns ==
    /\ pc = "defaultOnSettled"
    /\ Resume("defaultOnSettled",
              IF InCatch THEN AtCatchOnSettled ELSE AtOnSettled,
              Undefined, NoError, Disposition)
    /\ UNCHANGED <<cur, other, args, locals, config, options, ret, response, err, beforeHandle, processedBody>>

OnSettledReturns ==
    /\ pc = "onSettled"
    /\ Resume("onSettled", "end", Undefined, NoError, Disposition)
    /\ UNCHANGED <<cur, other, args, locals, config, options, ret, response, err, beforeHandle, processedBody>>

----------------------------------------------------------------------------
(* A hook throws (or its promise rejects): no hook call is inside the try  *)
(* block, so the call rejects with what the hook threw.                    *)

HookThrows ==
    /\ pc \in Slots
    /\ Propagate(pc, HookThrown(pc))
    /\ UNCHANGED <<cur, other, args, locals, config, options, ret, response, err, beforeHandle, processedBody>>

----------------------------------------------------------------------------

Next ==
    \/ Call
    \/ DefaultOnPrepReturns
    \/ OnPrepReturns
    \/ DelayElapses
    \/ FetchResolves
    \/ FetchRejects
    \/ MockFnResolves
    \/ MockFnRejects
    \/ JsonResolves
    \/ JsonRejects
    \/ TextResolves
    \/ DefaultOnSuccessReturns
    \/ OnSuccessReturns
    \/ DefaultOnNotOkReturns
    \/ OnNotOkReturns
    \/ OnErrorReturns
    \/ DefaultOnErrorReturns
    \/ DefaultOnSettledReturns
    \/ OnSettledReturns
    \/ HookThrows

Spec == Init /\ [][Next]_vars

(* The request of one call, built from every combination of inputs *)

InitRequest ==
    /\ args \in RequestArgs
    /\ locals = NoLocals
    /\ cur = "first"
    /\ other = IdleFrame
    /\ config = [hooks |-> {}, throwNotOk |-> "undefined"]
    /\ options = NoOptions
    /\ pc = "idle"
    /\ log = <<>>
    /\ ret = [s \in OutcomeSlots \cup ErrorSlots |-> Undefined]
    /\ response = NoResponse
    /\ err = NoError
    /\ beforeHandle = Undefined
    /\ processedBody = Undefined
    /\ result = Pending

NextRequest ==
    \/ MergeDefaults
    \/ ResolveUrl
    \/ CallFetch

SpecRequest == InitRequest /\ [][NextRequest]_vars

(* Two calls issued concurrently on one client *)

ConcurrentConfigs == {c \in Configs : c.hooks = Hooks /\ c.throwNotOk = "true"}

\* two calls that differ in every option
ConcurrentOptions ==
    { [hooks |-> Hooks, disableDefault |-> {}, throwNotOk |-> "undefined",
       mockFn |-> FALSE, delay |-> 0],
      [hooks |-> {}, disableDefault |-> {"onSettled"}, throwNotOk |-> "false",
       mockFn |-> TRUE, delay |-> MaxDelay] }

InitConcurrent ==
    /\ config \in ConcurrentConfigs
    /\ options = NoOptions
    /\ pc = "idle"
    /\ log = <<>>
    /\ ret = [s \in OutcomeSlots \cup ErrorSlots |-> Undefined]
    /\ response = NoResponse
    /\ err = NoError
    /\ beforeHandle = Undefined
    /\ processedBody = Undefined
    /\ result = Pending
    /\ args = NoArgs
    /\ locals = NoLocals
    /\ cur = "first"
    /\ other = IdleFrame

\* one of the two calls is made
ConcurrentCall ==
    /\ pc = "idle"
    /\ \E opts \in ConcurrentOptions : fetcher(opts)

\* the event loop runs the other call: the running call stays suspended at
\* its await (or not yet made, or ended) and the other one is resumed
Switch ==
    /\ LET frame == Resumed(other)
       IN  /\ options' = frame.options
           /\ pc' = frame.pc
           /\ log' = frame.log
           /\ ret' = frame.ret
           /\ response' = frame.response
           /\ err' = frame.err
           /\ beforeHandle' = frame.beforeHandle
           /\ processedBody' = frame.processedBody
           /\ result' = frame.result
    /\ other' = Frame
    /\ cur' = Peer[cur]
    /\ UNCHANGED <<config, args, locals>>

NextConcurrent ==
    \/ ConcurrentCall
    \/ Switch
    \/ DefaultOnPrepReturns
    \/ OnPrepReturns
    \/ DelayElapses
    \/ FetchResolves
    \/ FetchRejects
    \/ MockFnResolves
    \/ MockFnRejects
    \/ JsonResolves
    \/ JsonRejects
    \/ TextResolves
    \/ DefaultOnSuccessReturns
    \/ OnSuccessReturns
    \/ DefaultOnNotOkReturns
    \/ OnNotOkReturns
    \/ OnErrorReturns
    \/ DefaultOnErrorReturns
    \/ DefaultOnSettledReturns
    \/ OnSettledReturns
    \/ HookThrows

SpecConcurrent == InitConcurrent /\ [][NextConcurrent]_vars

TypeOK ==
    /\ config \in Configs
    /\ options \in Options
    /\ pc \in {"idle", "done", "delay", "fetch", "mockFn", "json", "text"} \cup Slots
    /\ result.kind \in {"pending", "return", "throw"}
    /\ (pc = "done") <=> (result.kind # "pending")

----------------------------------------------------------------------------
(* Reading the log *)

InvokedAt(fn)  == {i \in DOMAIN log : log[i].ev = "invoke" /\ log[i].fn = fn}
ResolvedAt(fn) == {i \in DOMAIN log : log[i].ev = "resolved" /\ log[i].fn = fn}
RejectedAt(fn) == {i \in DOMAIN log : log[i].ev = "rejected" /\ log[i].fn = fn}

Times(fn)    == Cardinality(InvokedAt(fn))
WasInvoked(fn) == \E i \in DOMAIN log : log[i].ev = "invoke" /\ log[i].fn = fn
Threw(fn)    == \E i \in DOMAIN log : log[i].ev = "rejected" /\ log[i].fn = fn

PrepSlots    == {"defaultOnPrep", "onPrep"}
SuccessSlots == {"defaultOnSuccess", "onSuccess"}
NotOkSlots   == {"defaultOnNotOk", "onNotOk"}
SettledSlots == {"defaultOnSettled", "onSettled"}

\* the call has returned or thrown
Done == pc = "done"

\* dispatch produced a response / failed
GotResponse    == response # NoResponse
DispatchFailed == Threw("fetch") \/ Threw("mockFn")

\* the body as the code decodes it from the response
DecodedBody ==
    IF EmptyBody(response) THEN Null
    ELSE IF JsonBody(response) THEN <<"json", response.payload>>
    ELSE <<"text", response.payload>>

\* the body decoded without failure
BodyDecoded == GotResponse /\ ~Threw("json")

\* the value the two hooks of a lifecycle point leave: the call-level hook's
\* return value if not undefined, else the default hook's, else `otherwise`
Precedence(h, otherwise) ==
    IF ret[h] # Undefined THEN ret[h]
    ELSE IF ret[DefaultSlot[h]] # Undefined THEN ret[DefaultSlot[h]]
    ELSE otherwise

----------------------------------------------------------------------------
(* C1 *)

\* C1 as stated: in every call in which no prep hook throws, the enabled
\* default settled hook and the call-level settled hook are each invoked
\* exactly once before the call returns or throws, whatever the outcome,
\* including when a success, not-ok or error hook upstream throws.  (Stated
\* for the calls whose body decodes, the outcomes the claim lists.)
C1_AsStated ==
    (Done /\ ~Threw("defaultOnPrep") /\ ~Threw("onPrep") /\ ~Threw("json"))
        => /\ DefaultEnabled("onSettled") => Times("defaultOnSettled") = 1
           /\ CallLevel("onSettled") => Times("onSettled") = 1

\* C1 (amended): no settled hook is ever invoked twice, and in every call in
\* which no prep, success, not-ok or error hook throws and the decoding of the
\* body does not fail, by the time the call returns or throws the enabled
\* default settled hook has been invoked exactly once and, unless it threw,
\* the call-level settled hook has been invoked exactly once, whatever the
\* outcome (ok response, non-ok response, transport/mock failure).
C1_SettledOnce ==
    /\ \A s \in SettledSlots : Times(s) <= 1
    /\ (Done /\ ~Threw("json")
             /\ \A s \in PrepSlots \cup OutcomeSlots \cup ErrorSlots : ~Threw(s))
        => /\ DefaultEnabled("onSettled") => Times("defaultOnSettled") = 1
           /\ (CallLevel("onSettled") /\ ~Threw("defaultOnSettled"))
                  => Times("onSettled") = 1

\* both settled hooks ran once in a call whose transport failed and in which
\* an error hook ran
C1_Witness ==
    /\ Done
    /\ DispatchFailed
    /\ WasInvoked("onError")
    /\ Times("defaultOnSettled") = 1
    /\ Times("onSettled") = 1

----------------------------------------------------------------------------
(* C2 *)

HookGroups == {SuccessSlots, NotOkSlots, ErrorSlots}

GroupsInvoked == {g \in HookGroups : \E s \in g : WasInvoked(s)}

\* C2: in one call, hooks of at most one of the groups {success hooks},
\* {not-ok hooks}, {error hooks} are ever invoked.
C2_OneBranch == Cardinality(GroupsInvoked) <= 1

\* both not-ok hooks ran, on a non-ok response
C2_Witness ==
    /\ Done
    /\ ~Ok(response)
    /\ WasInvoked("defaultOnNotOk")
    /\ WasInvoked("onNotOk")

----------------------------------------------------------------------------
(* C3 *)

\* C3: when the call returns on the success branch, or on the not-ok branch
\* (throwNotOk resolved false), its result is the call-level hook's return
\* value when that is not undefined, otherwise the enabled default hook's
\* return value when that is not undefined, otherwise the decoded body.
C3_ResultPrecedence ==
    (Done /\ result.kind = "return" /\ GotResponse)
        => result.value =
              IF Ok(response)
              THEN Precedence("onSuccess", DecodedBody)
              ELSE Precedence("onNotOk", DecodedBody)

\* both success hooks returned a value and the call returned the call-level one
C3_Witness ==
    /\ Done
    /\ result.kind = "return"
    /\ Ok(response)
    /\ ret["defaultOnSuccess"] = HookValue("defaultOnSuccess")
    /\ ret["onSuccess"] = HookValue("onSuccess")
    /\ result.value = HookValue("onSuccess")

----------------------------------------------------------------------------
(* C4 *)

NoHookThrew == \A s \in Slots : ~Threw(s)

NonOkResponse == GotResponse /\ ~Ok(response)

\* the call threw a ResponseError with the response's status and the body
\* left by the not-ok hooks
RaisedResponseError ==
    /\ result.kind = "throw"
    /\ result.error.name = "ResponseError"
    /\ result.error.status = response.status
    /\ result.error.body = Precedence("onNotOk", DecodedBody)

\* C4 as stated: when dispatch yields a non-ok response, the resolved
\* throwNotOk flag is true and no hook throws, the call raises a ResponseError
\* whose status is the response's status and whose body is the decoded body as
\* possibly replaced by the not-ok hooks.
C4_AsStated ==
    (Done /\ NonOkResponse /\ shouldThrowNotOk /\ NoHookThrew)
        => RaisedResponseError

\* C4 (amended): the same, provided the decoding of the body does not fail.
C4_ResponseError ==
    (Done /\ NonOkResponse /\ shouldThrowNotOk /\ NoHookThrew /\ BodyDecoded)
        => RaisedResponseError

\* a 404 whose body the call-level not-ok hook replaced is raised as a
\* ResponseError carrying the replacement
C4_Witness ==
    /\ Done
    /\ response.status = 404
    /\ shouldThrowNotOk
    /\ ret["onNotOk"] = HookValue("onNotOk")
    /\ result.kind = "throw"
    /\ result.error.name = "ResponseError"
    /\ result.error.body = HookValue("onNotOk")

----------------------------------------------------------------------------
(* C5 *)

ReturnedNotOkBody ==
    /\ result.kind = "return"
    /\ result.value = Precedence("onNotOk", DecodedBody)

\* C5 as stated: when dispatch yields a non-ok response and the resolved
\* throwNotOk flag is false, the call does not throw (absent a throwing hook)
\* and resolves to the not-ok hook's returned value if one is returned,
\* otherwise to the decoded body.
C5_AsStated ==
    (Done /\ NonOkResponse /\ ~shouldThrowNotOk /\ NoHookThrew)
        => ReturnedNotOkBody

\* C5 (amended): the same, provided the decoding of the body does not fail.
C5_NotOkReturns ==
    (Done /\ NonOkResponse /\ ~shouldThrowNotOk /\ NoHookThrew /\ BodyDecoded)
        => ReturnedNotOkBody

\* a 404 with throwNotOk false resolves to what the not-ok hook returned
C5_Witness ==
    /\ Done
    /\ response.status = 404
    /\ ~shouldThrowNotOk
    /\ ret["onNotOk"] = HookValue("onNotOk")
    /\ result.kind = "return"
    /\ result.value = HookValue("onNotOk")

----------------------------------------------------------------------------
(* C6, C7 *)

\* what the transport or the mock supplier threw
RawFailure == IF options.mockFn THEN MockFailure ELSE FetchFailure

\* every settled hook the call has was invoked, once
SettledRan ==
    /\ DefaultEnabled("onSettled") => Times("defaultOnSettled") = 1
    /\ CallLevel("onSettled") => Times("onSettled") = 1

NoErrorHookValue ==
    ret["onError"] = Undefined /\ ret["defaultOnError"] = Undefined

RaisedNetworkError ==
    /\ result.kind = "throw"
    /\ result.error.name = "NetworkError"
    /\ result.error.cause = RawFailure
    /\ result.error.originalError = RawFailure

\* C6 as stated: when the transport (or mock supplier) throws and neither
\* error hook returns a non-undefined value, the call runs the settled hooks
\* and then raises a NetworkError whose cause/originalError is the original
\* thrown error.
C6_AsStated ==
    (Done /\ DispatchFailed /\ NoErrorHookValue)
        => (SettledRan /\ RaisedNetworkError)

\* C6 (amended): the same, provided no hook throws.
C6_NetworkError ==
    (Done /\ DispatchFailed /\ NoErrorHookValue /\ NoHookThrew)
        => (SettledRan /\ RaisedNetworkError)

\* both error hooks returned undefined, both settled hooks ran, and the
\* failure of the transport was raised wrapped
C6_Witness ==
    /\ Done
    /\ Threw("fetch")
    /\ ResolvedAt("onError") # {}
    /\ ResolvedAt("defaultOnError") # {}
    /\ NoErrorHookValue
    /\ Times("defaultOnSettled") = 1
    /\ Times("onSettled") = 1
    /\ result.error.name = "NetworkError"

ReturnedErrorHookValue ==
    /\ result.kind = "return"
    /\ result.value = IF ret["onError"] # Undefined
                      THEN ret["onError"]
                      ELSE ret["defaultOnError"]

\* C7 as stated: on the error branch, if either error hook returns a
\* non-undefined value the call resolves to that value instead of throwing,
\* the call-level hook's value taking precedence, and the settled hooks run
\* before the call returns.
C7_AsStated ==
    (Done /\ DispatchFailed /\ ~NoErrorHookValue)
        => (SettledRan /\ ReturnedErrorHookValue)

\* C7 (amended): the same, provided no hook throws.
C7_ErrorHookValue ==
    (Done /\ DispatchFailed /\ ~NoErrorHookValue /\ NoHookThrew)
        => (SettledRan /\ ReturnedErrorHookValue)

\* both error hooks returned a value; the call-level one is the result
C7_Witness ==
    /\ Done
    /\ DispatchFailed
    /\ ret["onError"] = HookValue("onError")
    /\ ret["defaultOnError"] = HookValue("defaultOnError")
    /\ Times("defaultOnSettled") = 1
    /\ Times("onSettled") = 1
    /\ result.kind = "return"
    /\ result.value = HookValue("onError")

----------------------------------------------------------------------------
(* C8, C9 *)

\* `first` was invoked and resolved before position j of the log
CompletedBefore(first, j) ==
    \E i \in InvokedAt(first) : \E k \in ResolvedAt(first) : i < k /\ k < j

HookInvocations == {i \in DOMAIN log : log[i].ev = "invoke" /\ log[i].fn \in Slots}

\* no hook is invoked while an earlier hook has not settled
NoOverlap ==
    \A i, j \in HookInvocations :
        i < j => \E k \in (i + 1)..(j - 1) :
                    log[k].fn = log[i].fn /\ log[k].ev \in {"resolved", "rejected"}

\* C8: at the prep, success, not-ok and settled points, when the default hook
\* is enabled and the call-level hook is invoked, the default hook was invoked
\* first and completed before the call-level hook started; hooks never
\* overlap.
C8_DefaultFirst ==
    /\ \A h \in {"onPrep", "onSuccess", "onNotOk", "onSettled"} :
          \A j \in InvokedAt(h) :
              DefaultEnabled(h) => CompletedBefore(DefaultSlot[h], j)
    /\ NoOverlap

\* a call in which both hooks ran at the prep, success and settled points
C8_Witness ==
    /\ Done
    /\ \A s \in PrepSlots \cup SuccessSlots \cup SettledSlots : WasInvoked(s)

\* C9: on the error branch, when the call-level error hook is present, the
\* default error hook is invoked only after the call-level error hook was
\* invoked and completed.
C9_CallLevelErrorFirst ==
    \A j \in InvokedAt("defaultOnError") :
        CallLevel("onError") => CompletedBefore("onError", j)

\* both error hooks ran
C9_Witness ==
    /\ Done
    /\ WasInvoked("onError")
    /\ WasInvoked("defaultOnError")

----------------------------------------------------------------------------
(* C10 *)

\* C10: if a prep hook throws, the call rejects with what it threw and nothing
\* further runs: only prep hooks were invoked before it (not the call-level
\* prep hook, if the default one threw), and nothing is invoked after it.
C10_PrepThrowStops ==
    \A s \in PrepSlots :
        \A i \in RejectedAt(s) :
            /\ i = Len(log)
            /\ Done
            /\ result.kind = "throw"
            /\ result.error = HookThrown(s)
            /\ \A j \in 1..i : log[j].fn \in PrepSlots
            /\ s = "defaultOnPrep" => ~WasInvoked("onPrep")

\* the default prep hook threw in a call that has a call-level prep hook, a
\* delay and settled hooks
C10_Witness ==
    /\ Done
    /\ Threw("defaultOnPrep")
    /\ CallLevel("onPrep")
    /\ options.delay # 0
    /\ DefaultEnabled("onSettled")
    /\ CallLevel("onSettled")

----------------------------------------------------------------------------
(* C11 *)

\* the call-level value when one is provided, otherwise the client default,
\* otherwise true
ExpectedThrowNotOk ==
    CASE options.throwNotOk = "true"  -> TRUE
      [] options.throwNotOk = "false" -> FALSE
      [] OTHER -> CASE config.throwNotOk = "true"  -> TRUE
                    [] config.throwNotOk = "false" -> FALSE
                    [] OTHER -> TRUE

\* C11: the resolved throwNotOk flag equals the call-level value whenever one
\* is provided, otherwise the client default, otherwise true; a non-ok
\* response whose body decoded, with no hook throwing, is raised as a
\* ResponseError exactly when that value is true.
C11_ThrowNotOkResolved ==
    /\ (pc # "idle") => (shouldThrowNotOk <=> ExpectedThrowNotOk)
    /\ (Done /\ NonOkResponse /\ BodyDecoded /\ NoHookThrew)
          => ((result.kind = "throw") <=> ExpectedThrowNotOk)

\* an explicit call-level false overrode a client default of true
C11_Witness ==
    /\ Done
    /\ NonOkResponse
    /\ config.throwNotOk = "true"
    /\ options.throwNotOk = "false"
    /\ result.kind = "return"

----------------------------------------------------------------------------
(* C15 *)

\* the call has ended and the statement that calls the call-level hook of
\* lifecycle point h was reached
PhaseReached(h) ==
    /\ Done
    /\ ~Threw(DefaultSlot[h])
    /\ CASE h = "onPrep"    -> TRUE
         [] h = "onSuccess" -> BodyDecoded /\ Ok(response)
         [] h = "onNotOk"   -> BodyDecoded /\ ~Ok(response)
         [] h = "onError"   -> DispatchFailed
         [] h = "onSettled" ->
                /\ DispatchFailed \/ BodyDecoded
                /\ \A s \in OutcomeSlots \cup ErrorSlots : ~Threw(s)

\* C15: for each of the five lifecycle hooks, disableDefault<Hook> keeps the
\* default hook from being invoked in the call, and the call-level hook of
\* the same point is invoked whenever its phase is reached, the flag set or
\* not.
C15_DisableDefaultOnly ==
    \A h \in Hooks :
        /\ h \in options.disableDefault => ~WasInvoked(DefaultSlot[h])
        /\ (CallLevel(h) /\ PhaseReached(h)) => WasInvoked(h)

\* every default hook is disabled, and the call-level prep, success and
\* settled hooks ran
C15_Witness ==
    /\ Done
    /\ config.hooks = Hooks
    /\ options.disableDefault = Hooks
    /\ WasInvoked("onPrep")
    /\ WasInvoked("onSuccess")
    /\ WasInvoked("onSettled")

----------------------------------------------------------------------------
(* C18 *)

\* the entries of the log that invoke an outcome hook
OutcomeInvocations ==
    {i \in DOMAIN log : log[i].ev = "invoke" /\ log[i].fn \in OutcomeSlots}

\* C18: a response with status 204, or with a content-length header equal to
\* "0", decodes to null without the JSON or text decoder being invoked,
\* whatever its content type and (for content-length 0) its status, and null
\* is the body the outcome hooks are passed.
C18_EmptyBodyIsNull ==
    (GotResponse /\ (response.status = 204 \/ response.contentLength = "0"))
        => /\ ~WasInvoked("json")
           /\ ~WasInvoked("text")
           /\ beforeHandle = Null
           /\ \A i \in OutcomeInvocations : log[i].body = Null

\* a 404 with content-length 0 whose not-ok hook was passed null
C18_Witness ==
    /\ Done
    /\ response.status = 404
    /\ response.contentLength = "0"
    /\ \E i \in OutcomeInvocations : log[i].fn = "onNotOk" /\ log[i].body = Null

----------------------------------------------------------------------------
(* C20 *)

\* C20: a failure thrown by the transport or by the mock supplier takes the
\* call to the error branch: the error hook the call has is invoked next, the
\* body is not decoded and no success or not-ok hook is invoked.
C20_FailureToErrorBranch ==
    DispatchFailed
        => /\ CallLevel("onError") => WasInvoked("onError")
           /\ (~CallLevel("onError") /\ DefaultEnabled("onError"))
                 => WasInvoked("defaultOnError")
           /\ ~WasInvoked("json")
           /\ ~WasInvoked("text")
           /\ processedBody = Undefined
           /\ \A s \in OutcomeSlots : ~WasInvoked(s)

\* the mock supplier threw and both error hooks ran
C20_Witness ==
    /\ Done
    /\ Threw("mockFn")
    /\ WasInvoked("onError")
    /\ WasInvoked("defaultOnError")

----------------------------------------------------------------------------
(* C19 *)

\* the hooks invoked so far, in order
HooksInvoked ==
    LET sel == SelectSeq(log, LAMBDA e : e.ev = "invoke" /\ e.fn \in Slots)
    IN  [i \in 1..Len(sel) |-> sel[i].fn]

\* the hooks a call that obtained a response invokes when none throws, as
\* given by the configuration, the options other than mockFn, and the
\* response
HookLine ==
    LET h    == IF Ok(response) THEN "onSuccess" ELSE "onNotOk"
        prep == <<[slot |-> "defaultOnPrep", on |-> DefaultEnabled("onPrep")],
                  [slot |-> "onPrep",        on |-> CallLevel("onPrep")]>>
        rest == <<[slot |-> DefaultSlot[h],     on |-> DefaultEnabled(h)],
                  [slot |-> h,                  on |-> CallLevel(h)],
                  [slot |-> "defaultOnSettled", on |-> DefaultEnabled("onSettled")],
                  [slot |-> "onSettled",        on |-> CallLevel("onSettled")]>>
        all  == IF BodyDecoded THEN prep \o rest ELSE prep
        sel  == SelectSeq(all, LAMBDA c : c.on)
    IN  [i \in 1..Len(sel) |-> sel[i].slot]

\* the line, cut after the first hook that threw
ExpectedHooks ==
    LET throwers == {i \in DOMAIN HookLine : Threw(HookLine[i])}
    IN  IF throwers = {} THEN HookLine
        ELSE SubSeq(HookLine, 1, CHOOSE i \in throwers : \A j \in throwers : i <= j)

\* the result of a call that obtained a response, as given by the response,
\* by what the hooks returned or threw, and by the throwNotOk values
ResultAsExpected ==
    IF \E s \in Slots : Threw(s)
    THEN /\ result.kind = "throw"
         /\ \E s \in Slots : Threw(s) /\ result.error = HookThrown(s)
    ELSE IF ~BodyDecoded
    THEN /\ result.kind = "throw"
         /\ result.error = JsonFailure
    ELSE IF ~Ok(response) /\ ExpectedThrowNotOk
    THEN RaisedResponseError
    ELSE /\ result.kind = "return"
         /\ result.value = Precedence(IF Ok(response) THEN "onSuccess" ELSE "onNotOk",
                                      DecodedBody)

\* C19: when a mock supplier is provided the transport is never invoked, and
\* the hooks invoked and the result of a call that obtained a response are
\* those given by the configuration, the response and the hooks' behaviour
\* alone: the same whether the response came from the mock supplier or from
\* the transport.
C19_MockAsTransport ==
    /\ options.mockFn => ~WasInvoked("fetch")
    /\ (pc # "idle" /\ ~options.mockFn) => ~WasInvoked("mockFn")
    /\ (Done /\ GotResponse) => (HooksInvoked = ExpectedHooks /\ ResultAsExpected)

\* a 404 from the mock supplier went through the not-ok and settled hooks and
\* was raised as a ResponseError
C19_Witness ==
    /\ Done
    /\ options.mockFn
    /\ WasInvoked("mockFn")
    /\ response.status = 404
    /\ WasInvoked("defaultOnNotOk")
    /\ WasInvoked("onNotOk")
    /\ WasInvoked("onSettled")
    /\ result.kind = "throw"
    /\ result.error.name = "ResponseError"

----------------------------------------------------------------------------
(* C12, C13, C14, C16, C17: the request *)

Resolved == locals.step = "resolved"

\* call-level value if provided, else the client's, else on
NormalizeAsDocumented ==
    IF args.options.normalizeUrl # "undefined" THEN IsTrue(args.options.normalizeUrl)
    ELSE IF defaultNormalizeUrl # "undefined" THEN IsTrue(defaultNormalizeUrl)
    ELSE TRUE

\* C12: URL normalization is active exactly when the call-level normalizeUrl
\* is true, or it is not provided and the client default is true, or neither
\* is provided; a call-level false turns it off even when the client default
\* is true.
C12_AsStated ==
    Resolved => (locals.normalize <=> NormalizeAsDocumented)

Keys(es) == {es[i][1] : i \in DOMAIN es}
Value(es, k) == es[CHOOSE i \in DOMAIN es : es[i][1] = k][2]

\* C13: for headers, query parameters and fetch options, when the call sets
\* the disableDefault flag the resolved mapping is the call-level mapping
\* alone, also when the call-level mapping is empty or was not passed.
C13_DisabledDefaultsAbsent ==
    (locals.step # "start") =>
        /\ IsTrue(args.options.disableDefaultHeaders)
              => locals.mergedHeaders = args.options.headers.entries
        /\ IsTrue(args.options.disableDefaultQueryParams)
              => locals.mergedQueryParams = args.options.queryParams.entries
        /\ IsTrue(args.options.disableDefaultFetchOptions)
              => locals.mergedFetchOptions = args.options.fetchOptions.entries

\* the built-in { credentials: 'include' } was suppressed by a call that
\* passed no fetch options of its own
C13_Witness ==
    /\ locals.step = "merged"
    /\ IsTrue(args.options.disableDefaultFetchOptions)
    /\ ~args.config.fetchOptions.passed
    /\ ~args.options.fetchOptions.passed
    /\ "credentials" \in Keys(defaultFetchOptions.entries)
    /\ locals.mergedFetchOptions = <<>>

\* merged has the keys of both mappings, the call's value where the call has
\* the key and the default's value elsewhere
ShallowMerge(merged, default, x) ==
    /\ Keys(merged) = Keys(default.entries) \cup Keys(x.entries)
    /\ \A k \in Keys(x.entries) : Value(merged, k) = Value(x.entries, k)
    /\ \A k \in Keys(default.entries) \ Keys(x.entries) :
          Value(merged, k) = Value(default.entries, k)

\* C14: for headers, query parameters and fetch options with the
\* disableDefault flag not set, the resolved mapping has every key of the
\* default and of the call-level mapping, with the call-level value for the
\* keys present at call level and the default value for the others.
C14_ShallowMerge ==
    (locals.step # "start") =>
        /\ ~IsTrue(args.options.disableDefaultHeaders)
              => ShallowMerge(locals.mergedHeaders, defaultHeaders, args.options.headers)
        /\ ~IsTrue(args.options.disableDefaultQueryParams)
              => ShallowMerge(locals.mergedQueryParams, defaultQueryParams,
                              args.options.queryParams)
        /\ ~IsTrue(args.options.disableDefaultFetchOptions)
              => ShallowMerge(locals.mergedFetchOptions, defaultFetchOptions,
                              args.options.fetchOptions)

\* default headers p and q, call-level header p: p is the call's, q the default's
C14_Witness ==
    /\ locals.step = "merged"
    /\ ~IsTrue(args.options.disableDefaultHeaders)
    /\ defaultHeaders.entries = << <<"p", One>>, <<"q", Two>> >>
    /\ args.options.headers.entries = << <<"p", Two>> >>
    /\ locals.mergedHeaders = << <<"p", Two>>, <<"q", Two>> >>

RECURSIVE LeadingSlashes(_)
LeadingSlashes(s) == IF StartsWith(s, "/") THEN 1 + LeadingSlashes(Tail(s)) ELSE 0

RECURSIVE TrailingSlashes(_)
TrailingSlashes(s) ==
    IF EndsWith(s, "/") THEN 1 + TrailingSlashes(SubSeq(s, 1, Len(s) - 1)) ELSE 0

\* the base of the call: the call-level url when one is provided, else the
\* client's
Base == Or(args.options.url, defaultUrl)

\* C16: with normalization active, for a base with at most one trailing
\* slash and an endpoint with zero, one or two leading slashes, the resolved
\* URL is base-without-trailing-slash + "/" + endpoint-without-leading-
\* slashes + query string.
C16_AsStated ==
    (Resolved /\ locals.normalize
        /\ TrailingSlashes(Base) <= 1 /\ LeadingSlashes(args.endpoint) <= 2)
    => locals.fullUrl =
          SubSeq(Base, 1, Len(Base) - TrailingSlashes(Base))
          \o Slash
          \o SubSeq(args.endpoint, LeadingSlashes(args.endpoint) + 1, Len(args.endpoint))
          \o locals.queryString

\* C17: with normalization inactive, the URL passed to the transport is
\* base + endpoint + query string, the base being the call-level url when
\* one is provided and the client's url otherwise.
C17_AsStated ==
    (Resolved /\ ~locals.normalize)
    => locals.fullUrl = Base \o args.endpoint \o locals.queryString

----------------------------------------------------------------------------
(* C21 *)

\* the other slot of the same lifecycle point, invoked after s if s is the
\* default one
Remaining(s) == {h \in Hooks : DefaultSlot[h] = s}

\* C21: if a success hook or a not-ok hook throws, the call rejects at once
\* with what it threw: nothing is invoked after the throw, so neither the
\* remaining hook of the branch (the call-level one, when the default one
\* threw) nor a settled hook is invoked.
C21_OutcomeThrowStops ==
    \A s \in OutcomeSlots :
        \A i \in RejectedAt(s) :
            /\ i = Len(log)
            /\ Done
            /\ result.kind = "throw"
            /\ result.error.name = "Error"
            /\ result.error.message = s
            /\ \A h \in Remaining(s) : ~WasInvoked(h)
            /\ \A t \in SettledSlots : ~WasInvoked(t)

\* the default success hook threw in a call that has a call-level success
\* hook and both settled hooks
C21_Witness ==
    /\ Done
    /\ Threw("defaultOnSuccess")
    /\ CallLevel("onSuccess")
    /\ DefaultEnabled("onSettled")
    /\ CallLevel("onSettled")

----------------------------------------------------------------------------
(* C22 *)

\* C22: if a not-ok hook throws, the call rejects with exactly the value the
\* hook threw, never with a ResponseError, whether the resolved throwNotOk
\* flag is true or false.
C22_NotOkThrowWins ==
    \A s \in NotOkSlots :
        Threw(s)
            => /\ Done
               /\ result.kind = "throw"
               /\ result.error.name = "Error"
               /\ result.error.message = s
               /\ result.error.name # "ResponseError"

\* the call-level not-ok hook threw although throwNotOk resolved true
C22_Witness ==
    /\ Done
    /\ Threw("onNotOk")
    /\ shouldThrowNotOk
    /\ NonOkResponse

----------------------------------------------------------------------------
(* C23 *)

ThrewResponseError == result.kind = "throw" /\ result.error.name = "ResponseError"

\* C23: a call raises ResponseError only if dispatch produced a response, the
\* response is non-ok, the resolved throwNotOk flag is true and no success or
\* not-ok hook threw; an ok response never results in a ResponseError.
C23_ResponseErrorOnlyIf ==
    /\ ThrewResponseError
          => /\ GotResponse
             /\ ~Ok(response)
             /\ shouldThrowNotOk
             /\ \A s \in OutcomeSlots : ~Threw(s)
    /\ (GotResponse /\ Ok(response)) => ~ThrewResponseError

\* a ResponseError raised after the default not-ok hook and the settled
\* hooks ran
C23_Witness ==
    /\ Done
    /\ ThrewResponseError
    /\ WasInvoked("defaultOnNotOk")
    /\ WasInvoked("defaultOnSettled")
    /\ config.throwNotOk = "true"

----------------------------------------------------------------------------
(* C24 *)

ThrewNetworkError == result.kind = "throw" /\ result.error.name = "NetworkError"

\* C24: a call raises NetworkError only if the transport or mock supplier
\* itself threw and neither error hook returned a non-undefined value; once
\* a response was obtained no failure (decoding, outcome hooks, settled
\* hooks) is surfaced as a NetworkError.
C24_NetworkErrorOnlyIf ==
    /\ ThrewNetworkError
          => /\ DispatchFailed
             /\ ret["onError"] = Undefined
             /\ ret["defaultOnError"] = Undefined
    /\ GotResponse => ~ThrewNetworkError

\* a NetworkError raised after both error hooks ran and returned undefined
C24_Witness ==
    /\ Done
    /\ ThrewNetworkError
    /\ ResolvedAt("onError") # {}
    /\ ResolvedAt("defaultOnError") # {}

----------------------------------------------------------------------------
(* C27 *)

\* C27: a failure while decoding the response body propagates out of the
\* call as the decoder's own error: it is not wrapped in a NetworkError or a
\* ResponseError, and neither error hook is invoked for it.
C27_DecodeFailureAsIs ==
    Threw("json")
        => /\ Done
           /\ result.kind = "throw"
           /\ result.error.name = "SyntaxError"
           /\ result.error.message = "Unexpected token"
           /\ \A s \in ErrorSlots : ~WasInvoked(s)

\* a malformed JSON body of a non-ok response, in a call that has error
\* hooks and throwNotOk resolved true
C27_Witness ==
    /\ Done
    /\ Threw("json")
    /\ ~Ok(response)
    /\ shouldThrowNotOk
    /\ CallLevel("onError")
    /\ DefaultEnabled("onError")

----------------------------------------------------------------------------
(* C28 *)

Before(i, fn, ev) == \E j \in 1..(i - 1) : log[j].fn = fn /\ log[j].ev = ev

\* C28: when a delay is configured, the suspension begins only after both
\* prep hooks have completed and ends before the transport or mock supplier
\* is invoked; no hook runs during the delay.
C28_DelayBetweenPrepAndDispatch ==
    /\ \A d \in InvokedAt("delay") :
          /\ \A j \in 1..(d - 1) : log[j].fn \in PrepSlots
          /\ DefaultEnabled("onPrep") => Before(d, "defaultOnPrep", "resolved")
          /\ CallLevel("onPrep") => Before(d, "onPrep", "resolved")
          /\ d < Len(log) => log[d + 1] = Settled("delay", "resolved")
          /\ d + 1 < Len(log) => /\ log[d + 2].ev = "invoke"
                                 /\ log[d + 2].fn \in {"fetch", "mockFn"}
    /\ \A i \in InvokedAt("fetch") \cup InvokedAt("mockFn") :
          options.delay # 0 => Before(i, "delay", "resolved")
    /\ pc = "delay" => log[Len(log)].fn = "delay"

\* a call with both prep hooks and a delay reached the transport
C28_Witness ==
    /\ options.delay # 0
    /\ WasInvoked("defaultOnPrep")
    /\ WasInvoked("onPrep")
    /\ WasInvoked("delay")
    /\ WasInvoked("fetch")

----------------------------------------------------------------------------
(* C29 *)

CallLevelOutcome == {"onSuccess", "onNotOk"}

\* C29 as stated: on the success and not-ok branches the body passed to the
\* call-level hook is the current body: the default hook's non-undefined
\* return value when the default hook ran and returned one, and the decoded
\* body otherwise.
C29_AsStated ==
    \A h \in CallLevelOutcome :
        \A i \in InvokedAt(h) :
            log[i].body = IF ret[DefaultSlot[h]] # Undefined
                          THEN ret[DefaultSlot[h]]
                          ELSE DecodedBody

\* C29 (amended): on the success and not-ok branches the body passed to the
\* default hook and to the call-level hook is the decoded body, also when
\* the default hook ran and returned a non-undefined value.
C29_DecodedBodyPassed ==
    \A s \in OutcomeSlots :
        \A i \in InvokedAt(s) : log[i].body = DecodedBody

\* the default success hook returned a value and the call-level success hook
\* was still passed the decoded body
C29_Witness ==
    /\ ret["defaultOnSuccess"] = HookValue("defaultOnSuccess")
    /\ WasInvoked("onSuccess")
    /\ \A i \in InvokedAt("onSuccess") :
          /\ log[i].body = DecodedBody
          /\ log[i].body # ret["defaultOnSuccess"]

----------------------------------------------------------------------------
(* C30 *)

\* C30: if an error hook throws, the call rejects with exactly the value the
\* hook threw, not with a NetworkError and not with a value an error hook
\* returned.
C30_ErrorHookThrowWins ==
    \A s \in ErrorSlots :
        Threw(s)
            => /\ Done
               /\ result.kind = "throw"
               /\ result.error.name = "Error"
               /\ result.error.message = s

\* the call-level error hook returned a value and the default error hook
\* then threw
C30_Witness ==
    /\ Done
    /\ ret["onError"] = HookValue("onError")
    /\ Threw("defaultOnError")
    /\ result.kind = "throw"

----------------------------------------------------------------------------
(* C26 *)

Fetched == locals.step = "fetched"

\* C26: for a call whose method is GET the request handed to the transport
\* carries no body, even when the call options supply one; for get() the
\* method handed to the transport is GET whatever the options contain.
C26_AsStated ==
    Fetched =>
        /\ method = Get => "body" \notin Keys(locals.init)
        /\ args.entry = "get" => Value(locals.init, "method") = Scalar(Get)

----------------------------------------------------------------------------
(* C31 *)

\* the invocations of the error hooks
ErrorInvocations ==
    {i \in DOMAIN log : log[i].ev = "invoke" /\ log[i].fn \in ErrorSlots}

\* C31: both error hooks are passed the raw failure thrown by the transport
\* or the mock supplier: the same value that the NetworkError the call
\* eventually throws wraps, and not that NetworkError.
C31_RawFailurePassed ==
    \A i \in ErrorInvocations :
        /\ DispatchFailed
        /\ log[i].error = RawFailure
        /\ log[i].error.name # "NetworkError"
        /\ ThrewNetworkError
               => /\ result.error.originalError = log[i].error
                  /\ result.error.cause = log[i].error
                  /\ result.error # log[i].error

\* the mock supplier threw, both error hooks were invoked and returned
\* undefined, and the call threw the NetworkError
C31_Witness ==
    /\ Done
    /\ Threw("mockFn")
    /\ ResolvedAt("onError") # {}
    /\ ResolvedAt("defaultOnError") # {}
    /\ ThrewNetworkError

----------------------------------------------------------------------------
(* C32 *)

DispatchSlots == {"fetch", "mockFn"}

\* the invocations of the transport and of the mock supplier
Dispatches ==
    {i \in DOMAIN log : log[i].ev = "invoke" /\ log[i].fn \in DispatchSlots}

\* C32: within one call the dispatch happens at most once; a call that has
\* ended without a prep hook throwing invoked exactly one of the transport
\* and the mock supplier, exactly once; and after a failure of the dispatch
\* neither is invoked again.
C32_DispatchOnce ==
    /\ Cardinality(Dispatches) <= 1
    /\ (Done /\ \A s \in PrepSlots : ~Threw(s))
          => /\ Cardinality(Dispatches) = 1
             /\ Times("fetch") + Times("mockFn") = 1
             /\ WasInvoked("mockFn") <=> options.mockFn
    /\ \A s \in DispatchSlots :
          \A i \in RejectedAt(s) :
              \A j \in DOMAIN log : j > i => log[j].fn \notin DispatchSlots

\* the transport failed, both error hooks returned undefined and the call
\* threw after its settled hooks
C32_Witness ==
    /\ Done
    /\ Threw("fetch")
    /\ Times("fetch") = 1
    /\ ResolvedAt("onError") # {}
    /\ ResolvedAt("defaultOnError") # {}
    /\ ResolvedAt("onSettled") # {}
    /\ result.kind = "throw"

----------------------------------------------------------------------------
(* C33 *)

\* C33: on the error branch the enabled default error hook is invoked even
\* when the call-level error hook has returned a non-undefined value (as
\* soon as the call-level hook has returned); that value does not skip the
\* default hook, it only wins as the result of a call in which no hook throws.
C33_DefaultErrorHookStillRuns ==
    /\ (ResolvedAt("onError") # {} /\ DefaultEnabled("onError"))
          => /\ Times("defaultOnError") = 1
             /\ \A j \in InvokedAt("defaultOnError") : CompletedBefore("onError", j)
    /\ (Done /\ ret["onError"] # Undefined /\ NoHookThrew)
          => result = Return(ret["onError"])

\* the call-level error hook returned a value, the default error hook ran
\* after it and returned another, and the call returned the call-level one
C33_Witness ==
    /\ Done
    /\ ret["onError"] = HookValue("onError")
    /\ ret["defaultOnError"] = HookValue("defaultOnError")
    /\ result = Return(HookValue("onError"))

----------------------------------------------------------------------------
(* C34 *)

\* C34: if a settled hook throws, the call rejects with what it threw
\* instead of its normal disposition (on the error branch neither a value
\* returned by an error hook nor the NetworkError, on the response branches
\* neither the body nor the ResponseError), and when the default settled
\* hook throws the call-level settled hook is not invoked.
C34_SettledThrowWins ==
    \A s \in SettledSlots :
        \A i \in RejectedAt(s) :
            /\ i = Len(log)
            /\ Done
            /\ result = Throw(HookThrown(s))
            /\ s = "defaultOnSettled" => ~WasInvoked("onSettled")

\* on the error branch, an error hook returned a value and the default
\* settled hook then threw in a call that has a call-level settled hook
C34_Witness ==
    /\ Done
    /\ DispatchFailed
    /\ ~NoErrorHookValue
    /\ Threw("defaultOnSettled")
    /\ CallLevel("onSettled")
    /\ result.kind = "throw"

\* on a response branch, a non-ok response with throwNotOk in force was
\* handled and the call-level settled hook then threw
C34_WitnessResponse ==
    /\ Done
    /\ GotResponse
    /\ ~Ok(response)
    /\ shouldThrowNotOk
    /\ Threw("onSettled")

----------------------------------------------------------------------------
(* C35 *)

\* C35: the method handed to the transport always equals the call's resolved
\* method, and the headers handed to it always equal the merged headers;
\* entries of the merged transport options cannot replace them.
C35_AsStated ==
    Fetched =>
        /\ Value(locals.init, "method") = Scalar(method)
        /\ Value(locals.init, "headers") = Object(locals.mergedHeaders)

----------------------------------------------------------------------------
(* C25 *)

\* what was established of a call made alone: its resolved throwNotOk flag,
\* the hooks it invokes and its result after a response, and its result
\* after a failure of the dispatch
AsWhenAlone ==
    /\ C11_ThrowNotOkResolved
    /\ C19_MockAsTransport
    /\ C6_NetworkError
    /\ C7_ErrorHookValue
    /\ C10_PrepThrowStops

\* a step of the running call leaves the suspended call as it is, and a
\* resumed call finds what it left
FramesKept ==
    /\ cur' = cur => other' = other
    /\ cur' # cur => (Frame' = other /\ other' = Frame)

\* C25: two calls issued concurrently on the same client are independent:
\* under every interleaving of their steps each call's resolved
\* configuration, hook invocations and result are those of the call made
\* alone, no step of one call changes anything of the other, and no call
\* changes the client's defaults.
C25_Independent ==
    /\ []AsWhenAlone
    /\ [][FramesKept /\ config' = config]_vars

\* a call ended with its response handled while the other call, made with
\* other options, is suspended in one of its hooks
C25_Witness ==
    /\ Done
    /\ GotResponse
    /\ other.pc \in Slots
    /\ other.options # options
    /\ other.options # NoOptions

====
